---- MODULE Spec2Model ----
(***************************************************************************)
(* Diff Sentinel (src/src/index.js): run a list of shell commands one     *)
(* after the other, then look at the working tree through use-git and     *)
(* report through @actions/core.                                           *)
(*                                                                         *)
(* The state is the program position (pc), the values the script holds,   *)
(* and what the collaborators have been told so far: the grouped log, the *)
(* annotations, the outputs, the calls made to git, the summary documents *)
(* written, the setFailed calls and the process.exit calls.                *)
(*                                                                         *)
(* Text is a sequence of string fragments; the empty string is <<>>, and  *)
(* string concatenation is \o.  A value that may be null is <<>> (null)   *)
(* or <<v>>.                                                               *)
(*                                                                         *)
(* Every awaited collaborator call (execa, git.hasDiff,                    *)
(* git.getChangedFiles, git.diff, core.summary.write) is a step of its    *)
(* own that either returns or rejects.  The synchronous @actions/core     *)
(* calls (startGroup, endGroup, warning, error, notice, setOutput,        *)
(* setFailed) and console.log only write to the log and return.  The      *)
(* inputs are resolved before the first step (index.js lines 42-47).      *)
(***************************************************************************)
EXTENDS Integers, Sequences, FiniteSets, TLC

\* ---------------------------------------------------------------- bounds
MaxCmds == 2
MaxFiles == 2

CommandTexts == {"fmt", "gen"}
FileNames == {"a.js", "b.js"}
FailMessageInputs == {"", "run fmt"}

RECURSIVE SeqsUpTo(_, _)
SeqsUpTo(S, n) ==
  IF n = 0 THEN {<<>>}
  ELSE LET shorter == SeqsUpTo(S, n - 1)
       IN  shorter \cup {Append(s, x) : s \in {t \in shorter : Len(t) = n - 1}, x \in S}

\* ---------------------------------------------------------------- values
Null == <<>>
Some(x) == <<x>>

\* what execa hands back for the captured streams: a string, an array of
\* lines, raw bytes, or nothing
RawString(t) == [type |-> "string", value |-> t]
RawArray(ls) == [type |-> "array", value |-> ls]
RawBytes(bs) == [type |-> "bytes", value |-> bs]
RawUndefined == [type |-> "undefined", value |-> <<>>]

\* the four ways one execa call can end
ExecSuccess ==
  [kind |-> "resolved", isExecaError |-> FALSE,
   exitCode |-> Some(0), signal |-> Null, message |-> <<>>,
   stdout |-> RawString(<<"ok">>), stderr |-> RawString(<<>>)]
ExecNonZero ==
  [kind |-> "rejected", isExecaError |-> TRUE,
   exitCode |-> Some(2), signal |-> Null,
   message |-> <<"Command failed with exit code 2">>,
   stdout |-> RawUndefined, stderr |-> RawArray(<<"e1", "e2">>)]
ExecSignal ==
  [kind |-> "rejected", isExecaError |-> TRUE,
   exitCode |-> Null, signal |-> Some("SIGKILL"),
   message |-> <<"Command was killed with SIGKILL">>,
   stdout |-> RawString(<<>>), stderr |-> RawBytes(<<101, 114, 114>>)]
ExecSpawnFailure ==
  [kind |-> "rejected", isExecaError |-> FALSE,
   exitCode |-> Null, signal |-> Null,
   message |-> <<"TypeError: spawn failed">>,
   stdout |-> RawUndefined, stderr |-> RawUndefined]
ExecOutcomes == {ExecSuccess, ExecNonZero, ExecSignal, ExecSpawnFailure}

\* what a rejecting collaborator call can throw: an Error or any other value
ThrownError == [isError |-> TRUE, name |-> "GitError", message |-> <<"not a git repository">>]
ThrownValue == [isError |-> FALSE, name |-> "", message |-> <<"EPIPE">>]
Throwables == {ThrownError, ThrownValue}

\* new Error(message)
NewError(message) == [isError |-> TRUE, name |-> "Error", message |-> message]

\* ---------------------------------------------------------------- text
\* Array.prototype.join(sep) over an array of texts
RECURSIVE joinTexts(_, _)
joinTexts(texts, sep) ==
  IF texts = <<>> THEN <<>>
  ELSE IF Len(texts) = 1 THEN texts[1]
  ELSE texts[1] \o <<sep>> \o joinTexts(Tail(texts), sep)

\* join() without its argument: the separator is a comma
joinStrings_Comma(strs, sep) == joinTexts([i \in 1..Len(strs) |-> <<strs[i]>>], ",")

\* Array.prototype.join(sep) over an array of strings
joinStrings(strs, sep) == joinTexts([i \in 1..Len(strs) |-> <<strs[i]>>], sep)

\* Buffer.from(bytes).toString() over the bytes used here
CharOf(b) == CASE b = 101 -> "e" [] b = 114 -> "r" [] OTHER -> "?"
decodeBytes(bs) == [i \in 1..Len(bs) |-> CharOf(bs[i])]

\* String(boolean), String(number | null)
BoolString(b) == IF b THEN "true" ELSE "false"
ExitCodeString(e) == IF e = Null THEN "null" ELSE ToString(e[1])

\* index.js normalizeOutput
normalizeOutput(value) ==
  CASE value.type = "string" -> value.value
    [] value.type = "array" -> joinStrings(value.value, "\n")
    [] value.type = "bytes" -> decodeBytes(value.value)
    [] OTHER -> <<>>

\* ---------------------------------------------------------------- inputs
DefaultFailMessage == "Generated or formatted files are out of date."

\* `??` in place of `||`: the empty input is kept
resolveFailMessage_NoDefault(input) == input

\* core.getInput('fail-message') || default
resolveFailMessage(input) == IF input = "" THEN DefaultFailMessage ELSE input

\* ---------------------------------------------------------------- state
VARIABLES
  commands,            \* core.getMultilineInput('run')
  failMessageInput,    \* core.getInput('fail-message')
  failMessage,
  failOnCommandError,
  failOnDiff,
  pc,                  \* position of the script
  cmdState,            \* per command: "pending", "running" or "completed"
  exec,                \* what the executor did for each completed command
  results,             \* runCommands' results array
  groupLog,            \* startGroup / endGroup calls, in order
  annotations,         \* warning / error / notice / console.log calls
  outputs,             \* setOutput calls, in order: <<key, value>>
  gitCalls,            \* calls made to use-git, in order
  diffExists,          \* Null, or Some(what git.hasDiff returned)
  changedFiles,        \* Null, or Some(what git.getChangedFiles returned)
  summaries,           \* summary documents written
  failed,              \* setFailed messages
  exits,               \* process.exit codes
  rejected             \* awaited collaborator calls that threw

vars == <<commands, failMessageInput, failMessage, failOnCommandError, failOnDiff,
          pc, cmdState, exec, results, groupLog, annotations, outputs, gitCalls,
          diffExists, changedFiles, summaries, failed, exits, rejected>>

config == <<commands, failMessageInput, failMessage, failOnCommandError, failOnDiff>>

Init ==
  /\ commands \in {c \in SeqsUpTo(CommandTexts, MaxCmds) : Len(c) >= 1}
  /\ failMessageInput \in FailMessageInputs
  /\ failMessage = resolveFailMessage(failMessageInput)
  /\ failOnCommandError \in BOOLEAN
  /\ failOnDiff \in BOOLEAN
  /\ pc = "start"
  /\ cmdState = [i \in 1..Len(commands) |-> "pending"]
  /\ exec = <<>>
  /\ results = <<>>
  /\ groupLog = <<>>
  /\ annotations = <<>>
  /\ outputs = <<>>
  /\ gitCalls = <<>>
  /\ diffExists = Null
  /\ changedFiles = Null
  /\ summaries = <<>>
  /\ failed = <<>>
  /\ exits = <<>>
  /\ rejected = <<>>

\* ---------------------------------------------------------------- helpers
\* core.startGroup(title) / core.endGroup()
startGroup(log, title) == Append(log, <<"startGroup", title>>)
endGroup(log) == Append(log, <<"endGroup", "">>)

\* core.setOutput(key, value)
setOutput(outs, key, value) == Append(outs, <<key, value>>)

\* index.js runCommand: the CommandResult built from what execa did
runCommand(command, outcome) ==
  IF outcome.kind = "resolved"
  THEN [command |-> command, ok |-> TRUE,
        stdout |-> normalizeOutput(outcome.stdout),
        stderr |-> normalizeOutput(outcome.stderr),
        exitCode |-> Null, signal |-> Null, message |-> Null]
  ELSE IF outcome.isExecaError
  THEN [command |-> command, ok |-> FALSE,
        exitCode |-> outcome.exitCode, signal |-> outcome.signal,
        message |-> Some(outcome.message),
        stdout |-> normalizeOutput(outcome.stdout),
        stderr |-> normalizeOutput(outcome.stderr)]
  ELSE [command |-> command, ok |-> FALSE,
        exitCode |-> Null, signal |-> Null,
        message |-> Some(outcome.message),
        stdout |-> <<>>, stderr |-> <<>>]

\* a loop that stops at the first failed command
loopHasNext_ShortCircuit(res, cmds) ==
  Len(res) < Len(cmds) /\ \A i \in 1..Len(res) : res[i].ok

\* runCommands: the for-of loop has another command to run
loopHasNext(res, cmds) == Len(res) < Len(cmds)

\* a loop that pushes the promise without awaiting it
canStartNext_NoAwait(p) == p \in {"loop", "await_command"}

\* runCommands: `results.push(await runCommand(command))` starts a command
\* only when the script is at the head of the loop, not inside an await
canStartNext(p) == p = "loop"

\* a filter that only counts the results carrying an exit code
failuresOf_ExitCodeOnly(res) == SelectSeq(res, LAMBDA r : r.exitCode # Null)

\* results.filter((r) => !r.ok)
failuresOf(res) == SelectSeq(res, LAMBDA r : ~r.ok)

\* the warnings and errors of the 'Command failures' group
RECURSIVE failureAnnotations(_)
failureAnnotations(fs) ==
  IF fs = <<>> THEN <<>>
  ELSE LET f == fs[1]
       IN  << <<"warning", <<"Command failed: ", f.command>> >> >>
           \o (IF f.exitCode # Null
               THEN << <<"warning", <<"Exit code: ", ExitCodeString(f.exitCode)>> >> >>
               ELSE <<>>)
           \o (IF f.stderr # <<>> THEN << <<"error", f.stderr>> >> ELSE <<>>)
           \o failureAnnotations(Tail(fs))

\* `- ${f.command} (exit code: ${f.exitCode}): ${f.message}`
failureLine(f) ==
  <<"- ", f.command, " (exit code: ", ExitCodeString(f.exitCode), "): ">>
  \o (IF f.message = Null THEN <<"undefined">> ELSE f.message[1])

\* the message of the Error thrown by the command-failure gate
commandGateMessage(fs) ==
  <<"Command execution failed (", ToString(Len(fs)), " failures):\n">>
  \o joinTexts([i \in 1..Len(fs) |-> failureLine(fs[i])], "\n")

\* a gate that needs more than one failure, and a gate that ignores the switch
commandGateAborts_OffByOne(fs, flag) == Len(fs) > 1 /\ flag
commandGateAborts_IgnoresFlag(fs, flag) == Len(fs) > 0

\* `if (failOnCommandError)` under `if (failures.length > 0)`
commandGateAborts(fs, flag) == Len(fs) > 0 /\ flag

\* the test inverted
isClean_Inverted(d) == d

\* `if (!diffExists)`
isClean(d) == ~d

\* a gate that ignores the switch
diffGateAborts_Always(flag) == TRUE

\* `if (failOnDiff) throw`
diffGateAborts(flag) == flag

\* String(changedFiles.length)
diffCountValue(files) == <<ToString(Len(files))>>

\* the top-level catch: the message handed to core.setFailed
setFailedMessage(error) ==
  IF error.isError THEN <<error.name, ": ">> \o error.message ELSE error.message

\* the summary documents
cleanSummary ==
  [heading |-> "Diff Sentinel", raw |-> <<"No uncommitted changes detected\n">>,
   list |-> <<>>, code |-> <<>>]
failedSummary(msg, files, cmds) ==
  [heading |-> "Diff Sentinel Failed", raw |-> <<msg, "\n">>,
   list |-> files, code |-> joinStrings(cmds, "\n")]

\* ---------------------------------------------------------------- steps
\* the least index in the given state, 0 when there is none
firstIn(st) ==
  IF \E i \in DOMAIN cmdState : cmdState[i] = st
  THEN CHOOSE i \in DOMAIN cmdState :
         cmdState[i] = st /\ \A j \in DOMAIN cmdState : cmdState[j] = st => i <= j
  ELSE 0

\* catch (error) { core.setFailed(...) }: the script ends
Catch(error) ==
  /\ failed' = Append(failed, setFailedMessage(error))
  /\ pc' = "done"

\* core.startGroup('Running commands'); runCommands(commands) is entered
StartRunning ==
  /\ pc = "start"
  /\ groupLog' = startGroup(groupLog, "Running commands")
  /\ pc' = "loop"
  /\ UNCHANGED <<config, cmdState, exec, results, annotations, outputs, gitCalls,
                 diffExists, changedFiles, summaries, failed, exits, rejected>>

\* runCommands: the next command is handed to execa
StartCommand ==
  /\ canStartNext(pc)
  /\ loopHasNext(results, commands)
  /\ firstIn("pending") # 0
  /\ cmdState' = [cmdState EXCEPT ![firstIn("pending")] = "running"]
  /\ pc' = "await_command"
  /\ UNCHANGED <<config, exec, results, groupLog, annotations, outputs, gitCalls,
                 diffExists, changedFiles, summaries, failed, exits, rejected>>

\* runCommands: execa settles and runCommand's result is pushed
CompleteCommand ==
  /\ pc = "await_command"
  /\ firstIn("running") # 0
  /\ \E outcome \in ExecOutcomes :
       LET i == firstIn("running")
       IN  /\ exec' = Append(exec, outcome)
           /\ results' = Append(results, runCommand(commands[i], outcome))
           /\ cmdState' = [cmdState EXCEPT ![i] = "completed"]
  /\ pc' = "loop"
  /\ UNCHANGED <<config, groupLog, annotations, outputs, gitCalls,
                 diffExists, changedFiles, summaries, failed, exits, rejected>>

\* runCommands returns: core.endGroup(), the command_failures output, the
\* 'Command failures' group, the command-failure gate, and the call of
\* git.hasDiff()
FinishCommands ==
  /\ pc = "loop"
  /\ ~loopHasNext(results, commands)
  /\ LET failures == failuresOf(results)
         log1 == endGroup(groupLog)
     IN  /\ outputs' = setOutput(outputs, "command_failures", <<ToString(Len(failures))>>)
         /\ IF Len(failures) > 0
            THEN /\ groupLog' = endGroup(startGroup(log1, "Command failures"))
                 /\ annotations' = annotations \o failureAnnotations(failures)
            ELSE /\ groupLog' = log1
                 /\ UNCHANGED annotations
         /\ IF commandGateAborts(failures, failOnCommandError)
            THEN /\ Catch(NewError(commandGateMessage(failures)))
                 /\ UNCHANGED gitCalls
            ELSE /\ gitCalls' = Append(gitCalls, "hasDiff")
                 /\ pc' = "await_hasDiff"
                 /\ UNCHANGED failed
  /\ UNCHANGED <<config, cmdState, exec, results, diffExists, changedFiles,
                 summaries, exits, rejected>>

\* an awaited collaborator call rejects: the top-level catch runs
Rejects(position, call) ==
  /\ pc = position
  /\ \E error \in Throwables :
       /\ rejected' = Append(rejected, call)
       /\ Catch(error)
  /\ UNCHANGED <<config, cmdState, exec, results, groupLog, annotations, outputs,
                 gitCalls, diffExists, changedFiles, summaries, exits>>

\* git.hasDiff() returns: the has_diff output, then either the clean path up
\* to the call of summary.write(), or the call of git.getChangedFiles()
HasDiffReturns ==
  /\ pc = "await_hasDiff"
  /\ \E d \in BOOLEAN :
       /\ diffExists' = Some(d)
       /\ outputs' = setOutput(outputs, "has_diff", <<BoolString(d)>>)
       /\ IF isClean(d)
          THEN /\ annotations' = Append(annotations, <<"notice", <<"Working tree is clean">> >>)
               /\ pc' = "await_cleanSummary"
               /\ UNCHANGED gitCalls
          ELSE /\ gitCalls' = Append(gitCalls, "getChangedFiles")
               /\ pc' = "await_getChangedFiles"
               /\ UNCHANGED annotations
  /\ UNCHANGED <<config, cmdState, exec, results, groupLog, changedFiles,
                 summaries, failed, exits, rejected>>

HasDiffRejects == Rejects("await_hasDiff", "hasDiff")

\* the clean summary is written: process.exit(0)
CleanSummaryWritten ==
  /\ pc = "await_cleanSummary"
  /\ summaries' = Append(summaries, cleanSummary)
  /\ exits' = Append(exits, 0)
  /\ pc' = "done"
  /\ UNCHANGED <<config, cmdState, exec, results, groupLog, annotations, outputs,
                 gitCalls, diffExists, changedFiles, failed, rejected>>

CleanSummaryRejects == Rejects("await_cleanSummary", "summary.write")

\* git.getChangedFiles() returns: the changed_files and diff_count outputs,
\* the 'Changed files' group, the 'Diff' group is opened and git.diff called
ChangedFilesReturns ==
  /\ pc = "await_getChangedFiles"
  /\ \E files \in SeqsUpTo(FileNames, MaxFiles) :
       /\ changedFiles' = Some(files)
       /\ outputs' = setOutput(setOutput(outputs, "changed_files", joinStrings(files, "\n")),
                               "diff_count", diffCountValue(files))
       /\ annotations' = annotations \o [i \in 1..Len(files) |-> <<"log", <<"- ", files[i]>> >>]
       /\ groupLog' = startGroup(endGroup(startGroup(groupLog, "Changed files")), "Diff")
       /\ gitCalls' = Append(gitCalls, "diff")
  /\ pc' = "await_diff"
  /\ UNCHANGED <<config, cmdState, exec, results, diffExists, summaries, failed,
                 exits, rejected>>

ChangedFilesRejects == Rejects("await_getChangedFiles", "getChangedFiles")

\* git.diff(changedFiles) returns: core.endGroup(), summary.write() is called
DiffReturns ==
  /\ pc = "await_diff"
  /\ groupLog' = endGroup(groupLog)
  /\ pc' = "await_failedSummary"
  /\ UNCHANGED <<config, cmdState, exec, results, annotations, outputs, gitCalls,
                 diffExists, changedFiles, summaries, failed, exits, rejected>>

DiffRejects == Rejects("await_diff", "diff")

\* the failure summary is written: the diff gate
FailedSummaryWritten ==
  /\ pc = "await_failedSummary"
  /\ summaries' = Append(summaries, failedSummary(failMessage, changedFiles[1], commands))
  /\ IF diffGateAborts(failOnDiff)
     THEN Catch(NewError(<<failMessage>>))
     ELSE /\ pc' = "done"
          /\ UNCHANGED failed
  /\ UNCHANGED <<config, cmdState, exec, results, groupLog, annotations, outputs,
                 gitCalls, diffExists, changedFiles, exits, rejected>>

FailedSummaryRejects == Rejects("await_failedSummary", "summary.write")

Next ==
  \/ StartRunning
  \/ StartCommand
  \/ CompleteCommand
  \/ FinishCommands
  \/ HasDiffReturns
  \/ HasDiffRejects
  \/ CleanSummaryWritten
  \/ CleanSummaryRejects
  \/ ChangedFilesReturns
  \/ ChangedFilesRejects
  \/ DiffReturns
  \/ DiffRejects
  \/ FailedSummaryWritten
  \/ FailedSummaryRejects

Spec == Init /\ [][Next]_vars

\* ---------------------------------------------------------------- claims
\* what the claims speak about
Done == pc = "done"
CommandsReturned == pc \notin {"start", "loop", "await_command"}
CommandFailed(i) == exec[i].kind # "resolved"
SomeCommandFailed == \E i \in 1..Len(exec) : CommandFailed(i)
Indices(n) == [i \in 1..n |-> i]
FailedCommandTexts ==
  LET idx == SelectSeq(Indices(Len(exec)), LAMBDA i : CommandFailed(i))
  IN  [k \in 1..Len(idx) |-> commands[idx[k]]]
OutputValues(key) ==
  LET hits == SelectSeq(outputs, LAMBDA o : o[1] = key)
  IN  [k \in 1..Len(hits) |-> hits[k][2]]
CalledGit(name) == \E i \in 1..Len(gitCalls) : gitCalls[i] = name
\* the commands named by the "- <command> (exit code: ...)" entries of a message
LineEntries(msg) ==
  LET idx == SelectSeq(Indices(Len(msg)), LAMBDA i : msg[i] = "- " /\ i < Len(msg))
  IN  [k \in 1..Len(idx) |-> msg[idx[k] + 1]]
ExpectedFailMessage ==
  IF failMessageInput = "" THEN "Generated or formatted files are out of date."
  ELSE failMessageInput

\* C1: once runCommands has returned there is exactly one result per input
\* command, result i carries command i and ok tells whether command i
\* succeeded; every command has been executed whatever the earlier ones did.
C1_OneResultPerCommand ==
  /\ Len(results) <= Len(commands)
  /\ \A i \in 1..Len(results) :
       /\ results[i].command = commands[i]
       /\ results[i].ok = ~CommandFailed(i)
  /\ CommandsReturned =>
       /\ Len(results) = Len(commands)
       /\ \A i \in DOMAIN cmdState : cmdState[i] = "completed"

C1_Witness ==
  /\ CommandsReturned
  /\ Len(commands) >= 2
  /\ CommandFailed(1)
  /\ Len(results) = Len(commands)

\* C2: at most one command runs at a time, a command is started only after
\* all the commands before it have completed, and git is called only when
\* every command has completed.
C2_SequentialThenDiff ==
  /\ Cardinality({i \in DOMAIN cmdState : cmdState[i] = "running"}) <= 1
  /\ \A i \in DOMAIN cmdState :
       cmdState[i] # "pending" => \A j \in 1..(i - 1) : cmdState[j] = "completed"
  /\ gitCalls # <<>> => \A i \in DOMAIN cmdState : cmdState[i] = "completed"

C2_Witness ==
  /\ Len(commands) >= 2
  /\ gitCalls = <<"hasDiff">>
  /\ pc = "await_hasDiff"

\* C3: with failOnCommandError set and a failed command, git is never called,
\* has_diff, changed_files and diff_count are never set, no summary is
\* written, and the run ends with one setFailed whose message has one entry
\* per failed command, in order, and none for a command that succeeded.
C3_CommandGateAborts ==
  (failOnCommandError /\ SomeCommandFailed) =>
    /\ gitCalls = <<>>
    /\ OutputValues("has_diff") = <<>>
    /\ OutputValues("changed_files") = <<>>
    /\ OutputValues("diff_count") = <<>>
    /\ summaries = <<>>
    /\ exits = <<>>
    /\ Done =>
         /\ Len(failed) = 1
         /\ LineEntries(failed[1]) = FailedCommandTexts

C3_Witness ==
  /\ Done
  /\ failOnCommandError
  /\ Len(failed) = 1
  /\ \E i \in 1..Len(exec) : CommandFailed(i)
  /\ \E i \in 1..Len(exec) : ~CommandFailed(i)

\* C4 as stated: with failOnCommandError unset, a finished run has queried
\* git.hasDiff and set has_diff.
C4_AsStated ==
  (Done /\ ~failOnCommandError) =>
    /\ CalledGit("hasDiff")
    /\ Len(OutputValues("has_diff")) = 1

\* C4 amended: with failOnCommandError unset the run never fails before
\* git.hasDiff has been called, a finished run has called it, and has_diff is
\* set exactly when that call returned (it is unset only when git.hasDiff
\* threw, which ends the run in failure).
C4_ReachesDiffGate ==
  ~failOnCommandError =>
    /\ failed # <<>> => CalledGit("hasDiff")
    /\ Done => CalledGit("hasDiff")
    /\ (CalledGit("hasDiff") /\ pc # "await_hasDiff") =>
         \/ /\ diffExists # Null
            /\ OutputValues("has_diff") = << <<BoolString(diffExists[1])>> >>
         \/ /\ rejected = <<"hasDiff">>
            /\ OutputValues("has_diff") = <<>>
            /\ Len(failed) = 1

C4_Witness ==
  /\ Done
  /\ ~failOnCommandError
  /\ Len(exec) >= 2
  /\ \A i \in 1..Len(exec) : CommandFailed(i)
  /\ Len(OutputValues("has_diff")) = 1

\* C5 as stated: when git.hasDiff reported no changes the finished run has
\* written the clean summary and exited 0 without a failure, changed_files and
\* diff_count are unset and getChangedFiles and diff were not called.
C5_AsStated ==
  (Done /\ diffExists = Some(FALSE)) =>
    /\ exits = <<0>>
    /\ failed = <<>>
    /\ summaries = <<cleanSummary>>
    /\ OutputValues("changed_files") = <<>>
    /\ OutputValues("diff_count") = <<>>
    /\ gitCalls = <<"hasDiff">>

\* C5 amended: when git.hasDiff reported no changes, changed_files and
\* diff_count are never set and getChangedFiles and diff are never called,
\* whatever failOnDiff and the command results are; the finished run has
\* written the clean summary and exited 0 without a failure, unless the write
\* of the clean summary threw, and then it ended in failure without exit.
C5_CleanTreeExit ==
  diffExists = Some(FALSE) =>
    /\ OutputValues("changed_files") = <<>>
    /\ OutputValues("diff_count") = <<>>
    /\ gitCalls = <<"hasDiff">>
    /\ Done =>
         \/ /\ rejected = <<>>
            /\ exits = <<0>>
            /\ failed = <<>>
            /\ summaries = <<cleanSummary>>
         \/ /\ rejected = <<"summary.write">>
            /\ exits = <<>>
            /\ Len(failed) = 1
            /\ summaries = <<>>

C5_Witness ==
  /\ Done
  /\ diffExists = Some(FALSE)
  /\ exits = <<0>>
  /\ failOnDiff
  /\ SomeCommandFailed

IsNewlineJoin(value, files) ==
  /\ Len(value) = (IF Len(files) = 0 THEN 0 ELSE 2 * Len(files) - 1)
  /\ \A i \in 1..Len(files) : value[2 * i - 1] = files[i]
  /\ \A i \in 1..(Len(files) - 1) : value[2 * i] = "\n"

\* C7 as stated: with a diff and failOnDiff unset, the finished run has no
\* failure and has set changed_files and diff_count from the file list.
C7_AsStated ==
  (Done /\ diffExists = Some(TRUE) /\ ~failOnDiff) =>
    /\ failed = <<>>
    /\ Len(OutputValues("changed_files")) = 1
    /\ Len(OutputValues("diff_count")) = 1

\* C7 amended: with a diff and failOnDiff unset, the finished run has no
\* failure unless getChangedFiles, diff or the summary write threw; once
\* getChangedFiles has returned, changed_files is the newline join of its
\* list in its order and diff_count is the length of that list, each set once;
\* a run in which no call threw has set both.
C7_DiffReportedWithoutFailing ==
  (diffExists = Some(TRUE) /\ ~failOnDiff) =>
    /\ changedFiles # Null =>
         /\ Len(OutputValues("changed_files")) = 1
         /\ IsNewlineJoin(OutputValues("changed_files")[1], changedFiles[1])
         /\ OutputValues("diff_count") = << <<ToString(Len(changedFiles[1]))>> >>
    /\ changedFiles = Null =>
         /\ OutputValues("changed_files") = <<>>
         /\ OutputValues("diff_count") = <<>>
    /\ Done =>
         /\ failed = <<>> <=> rejected = <<>>
         /\ rejected = <<>> => changedFiles # Null
         /\ exits = <<>>

C7_Witness ==
  /\ Done
  /\ diffExists = Some(TRUE)
  /\ ~failOnDiff
  /\ failed = <<>>
  /\ changedFiles # Null
  /\ Len(changedFiles[1]) = 2

C9_FinalStatus ==
  /\ Len(failed) <= 1
  /\ failed # <<>> => Done
  /\ exits # <<>> => (failed = <<>> /\ exits = <<0>> /\ diffExists = Some(FALSE))
  /\ Done =>
       (failed # <<>> <=>
          \/ failOnCommandError /\ SomeCommandFailed
          \/ diffExists = Some(TRUE) /\ failOnDiff
          \/ rejected # <<>>)

C9_Witness ==
  /\ Done
  /\ ~failOnCommandError
  /\ SomeCommandFailed
  /\ diffExists = Some(TRUE)
  /\ ~failOnDiff
  /\ failed = <<>>

\* C10: no group is opened while another is open (opens and closes alternate
\* in the grouped log), and in a finished run every opened group is closed.
C10_GroupsBalanced ==
  /\ \A i \in 1..Len(groupLog) :
       groupLog[i][1] = (IF i % 2 = 1 THEN "startGroup" ELSE "endGroup")
  /\ Done => Len(groupLog) % 2 = 0

====
